---- MODULE Spec2Model ----
(***************************************************************************)
(* A model of the query-execution core of the in3120 search engine:        *)
(*   - PostingsMerger.intersection / union / difference                    *)
(*     (src/in3120/postingsmerger.py), each a Python generator, modelled   *)
(*     as a state machine over its local variables;                        *)
(*   - SimpleSearchEngine.evaluate (src/in3120/simplesearchengine.py),     *)
(*     the N-of-M k-way merge with ranker and sieve.                       *)
(***************************************************************************)
EXTENDS Integers, Sequences, FiniteSets, TLC

\* ------------------------------------------------------------------ bounds

\* Document ids of the two posting lists given to PostingsMerger: 1..MaxDoc.
MaxDoc == 4

\* Document ids of the inverted index given to SimpleSearchEngine: 1..MaxDocId.
MaxDocId == 3

\* The largest hit_count option tried.
MaxHits == 2

\* The largest number of unique query terms tried for the threshold.
MaxTerms == 4

\* match_threshold is tried from -PctSpan/100 to 1 + PctSpan/100.
PctSpan == 100

\* The largest number of tokens in a document's searchable content.
MaxTokens == 2

\* The number of documents of the corpora that hold more documents than the
\* default hit count.
ManyDocs == 6

\* ---------------------------------------------------------------- postings

\* A posting: document_id and term_frequency (posting.py, used through its
\* two fields only).
Posting(d, tf) == [document_id |-> d, term_frequency |-> tf]

\* Python's None where a posting is expected (a record, so that it can be
\* compared with postings; no posting has a negative document_id).
None == [document_id |-> 0 - 1, term_frequency |-> 0]

Min(S) == CHOOSE x \in S : \A y \in S : x <= y

RECURSIVE SortedIds(_)
\* The ids of S in strictly increasing order.
SortedIds(S) == IF S = {} THEN <<>> ELSE <<Min(S)>> \o SortedIds(S \ {Min(S)})

\* A posting list over the ids S, strictly increasing, every posting with
\* term frequency tf.
PostingList(S, tf) == [i \in 1..Cardinality(S) |-> Posting(SortedIds(S)[i], tf)]

\* The document ids of a sequence of postings, as a sequence and as a set.
DocIds(ps) == [i \in 1..Len(ps) |-> ps[i].document_id]
IdSet(ps) == {ps[i].document_id : i \in 1..Len(ps)}

\* Strictly ascending sequence of integers.
Ascending(s) == \A i \in 1..Len(s) - 1 : s[i] < s[i + 1]

\* ------------------------------------------------- PostingsMerger generators

\* The frame of a generator of PostingsMerger: its program counter, the two
\* input iterators (what is left to pull), the locals pointer1, pointer2,
\* has_seen (union) and last_yielded (difference), and the postings yielded
\* so far.
NewGenerator(op, a, b) ==
    [op |-> op, pc |-> "start", iter1 |-> a, iter2 |-> b,
     pointer1 |-> None, pointer2 |-> None,
     has_seen |-> {}, last_yielded |-> None, out |-> <<>>]

\* yield p
Yield(g, p) == [g EXCEPT !.out = Append(@, p)]

\* pointer1 = next(iter1); on StopIteration control goes to `handler' and
\* pointer1 keeps its old value.
Next1(g, ok, handler) ==
    IF g.iter1 = <<>> THEN [g EXCEPT !.pc = handler]
    ELSE [g EXCEPT !.pointer1 = Head(g.iter1), !.iter1 = Tail(g.iter1), !.pc = ok]

\* pointer2 = next(iter2), likewise.
Next2(g, ok, handler) ==
    IF g.iter2 = <<>> THEN [g EXCEPT !.pc = handler]
    ELSE [g EXCEPT !.pointer2 = Head(g.iter2), !.iter2 = Tail(g.iter2), !.pc = ok]

\* Both pulls attempted whatever the first does: the second stream is pulled
\* from although the first has raised StopIteration.
NextBothEager(g, ok, handler) ==
    LET g1 == Next1(g, ok, handler)
        g2 == Next2(g1, ok, handler)
    IN  IF g1.pc = handler THEN [g2 EXCEPT !.pc = handler] ELSE g2

\* pointer1 = next(iter1); pointer2 = next(iter2) inside one try block: the
\* second is not reached when the first raises.
NextBoth(g, ok, handler) ==
    LET g1 == Next1(g, ok, handler)
    IN  IF g1.pc = handler THEN g1 ELSE Next2(g1, ok, handler)

\* A yield from list(iter1) that loses all but its first posting: the whole
\* of iter1 is pulled before anything is yielded.
YieldFrom1Eager(g, after) ==
    IF g.iter1 = <<>> THEN [g EXCEPT !.pc = after]
    ELSE Yield([g EXCEPT !.iter1 = <<>>], Head(g.iter1))

\* yield from iter1, one posting per step.
YieldFrom1(g, after) ==
    IF g.iter1 = <<>> THEN [g EXCEPT !.pc = after]
    ELSE Yield([g EXCEPT !.iter1 = Tail(g.iter1)], Head(g.iter1))

\* yield from iter2, one posting per step.
YieldFrom2(g, after) ==
    IF g.iter2 = <<>> THEN [g EXCEPT !.pc = after]
    ELSE Yield([g EXCEPT !.iter2 = Tail(g.iter2)], Head(g.iter2))

\* The other policy for an id both streams hold: the second operand's posting.
OverlapSecond(g) == g.pointer2

\* The posting yielded when pointer1 and pointer2 hold the same document id
\* (intersection and union alike): pointer1, the first operand's posting.
OverlapPosting(g) == g.pointer1

\* A slip in intersection's elif: the pointer with the larger id is advanced.
AdvanceLarger(g) ==
    IF g.pointer1.document_id < g.pointer2.document_id
    THEN Next2(g, "loop", "done")
    ELSE Next1(g, "loop", "done")

\* The elif/else of intersection's loop: the pointer with the smaller id is
\* advanced; StopIteration ends the generator.
AdvanceSmaller(g) ==
    IF g.pointer1.document_id < g.pointer2.document_id
    THEN Next1(g, "loop", "done")
    ELSE Next2(g, "loop", "done")

\* PostingsMerger.intersection, one step of the generator.
IntersectionStep(g) ==
    CASE g.pc = "start" -> NextBoth(g, "loop", "done")
      [] g.pc = "loop" ->
            IF g.pointer1.document_id = g.pointer2.document_id
            THEN Yield([g EXCEPT !.pc = "yielded"], OverlapPosting(g))
            ELSE AdvanceSmaller(g)
      [] g.pc = "yielded" -> NextBoth(g, "loop", "done")
      [] OTHER -> g

\* A union that drops the has_seen test: yield p.
YieldAlways(g, p, then) == Yield([g EXCEPT !.pc = then], p)

\* if p.document_id not in has_seen: yield p (has_seen.add follows at `then').
YieldUnseen(g, p, then) ==
    IF p.document_id \notin g.has_seen
    THEN Yield([g EXCEPT !.pc = then], p)
    ELSE [g EXCEPT !.pc = then]

\* has_seen.add(p.document_id) after a yield.  When the yield was skipped the
\* id is in has_seen already and the step changes nothing.
Seen(g, p) == [g EXCEPT !.has_seen = @ \cup {p.document_id}]

\* (p for p in iter if p.document_id not in has_seen), one pull per step.
FilterFrom1(g, after) ==
    IF g.iter1 = <<>> THEN [g EXCEPT !.pc = after]
    ELSE LET p == Head(g.iter1)
             g1 == [g EXCEPT !.iter1 = Tail(g.iter1)]
         IN  IF p.document_id \notin g.has_seen THEN Yield(g1, p) ELSE g1

FilterFrom2(g, after) ==
    IF g.iter2 = <<>> THEN [g EXCEPT !.pc = after]
    ELSE LET p == Head(g.iter2)
             g1 == [g EXCEPT !.iter2 = Tail(g.iter2)]
         IN  IF p.document_id \notin g.has_seen THEN Yield(g1, p) ELSE g1

\* PostingsMerger.union, one step of the generator.
UnionStep(g) ==
    CASE g.pc = "start" ->
            IF g.iter1 = <<>> THEN [g EXCEPT !.pc = "from2"]
            ELSE LET g1 == Next1(g, "loop", "done")
                 IN  IF g1.iter2 = <<>>
                     THEN Yield([g1 EXCEPT !.pc = "from1"], g1.pointer1)
                     ELSE Next2(g1, "loop", "done")
      [] g.pc = "from2" -> YieldFrom2(g, "done")
      [] g.pc = "from1" -> YieldFrom1(g, "done")
      [] g.pc = "loop" ->
            IF g.pointer1.document_id = g.pointer2.document_id
            THEN YieldUnseen(g, OverlapPosting(g), "both")
            ELSE IF g.pointer1.document_id < g.pointer2.document_id
            THEN YieldUnseen(g, g.pointer1, "first")
            ELSE YieldUnseen(g, g.pointer2, "second")
      [] g.pc = "both" -> NextBoth(Seen(g, g.pointer1), "loop", "rest1")
      [] g.pc = "first" -> Next1(Seen(g, g.pointer1), "loop", "rest1")
      [] g.pc = "second" -> Next2(Seen(g, g.pointer2), "loop", "rest1")
      [] g.pc = "rest1" -> YieldUnseen(g, g.pointer1, "seen1")
      [] g.pc = "seen1" -> [Seen(g, g.pointer1) EXCEPT !.pc = "filter1"]
      [] g.pc = "filter1" -> FilterFrom1(g, "rest2")
      [] g.pc = "rest2" -> YieldUnseen(g, g.pointer2, "seen2")
      [] g.pc = "seen2" -> [Seen(g, g.pointer2) EXCEPT !.pc = "filter2"]
      [] g.pc = "filter2" -> FilterFrom2(g, "done")
      [] OTHER -> g

\* A difference without the test at line 141: pointer1 is yielded after the
\* loop whatever was yielded last.
LastYieldedIgnored(g) == TRUE

\* The test at line 141 of difference: pointer1 is yielded after the loop
\* unless it is the posting yielded last.
LastYieldedCheck(g) ==
    g.last_yielded = None \/ g.last_yielded.document_id # g.pointer1.document_id

\* PostingsMerger.difference, one step of the generator.
DifferenceStep(g) ==
    CASE g.pc = "start" ->
            IF g.iter1 = <<>> THEN [g EXCEPT !.pc = "done"]
            ELSE LET g1 == Next1(g, "loop", "done")
                 IN  IF g1.iter2 = <<>>
                     THEN Yield([g1 EXCEPT !.pc = "from1"], g1.pointer1)
                     ELSE Next2(g1, "loop", "done")
      [] g.pc = "from1" -> YieldFrom1(g, "done")
      [] g.pc = "loop" ->
            IF g.pointer1.document_id < g.pointer2.document_id
            THEN Yield([g EXCEPT !.last_yielded = g.pointer1, !.pc = "yielded"],
                       g.pointer1)
            ELSE IF g.pointer1.document_id > g.pointer2.document_id
            THEN Next2(g, "loop", "after")
            ELSE NextBoth(g, "loop", "after")
      [] g.pc = "yielded" -> Next1(g, "loop", "after")
      [] g.pc = "after" ->
            IF LastYieldedCheck(g)
            THEN Yield([g EXCEPT !.pc = "remaining"], g.pointer1)
            ELSE [g EXCEPT !.pc = "remaining"]
      [] g.pc = "remaining" -> YieldFrom1(g, "done")
      [] OTHER -> g

\* One step of whichever generator the frame belongs to.
GeneratorStep(g) ==
    CASE g.op = "intersection" -> IntersectionStep(g)
      [] g.op = "union" -> UnionStep(g)
      [] g.op = "difference" -> DifferenceStep(g)

RECURSIVE Exhaust(_)
\* list(generator): the generator run until it returns.
Exhaust(g) == IF g.pc = "done" THEN g.out ELSE Exhaust(GeneratorStep(g))

\* list(PostingsMerger.<op>(iter(a), iter(b)))
Merge(op, a, b) == Exhaust(NewGenerator(op, a, b))

\* ------------------------------------------- SimpleSearchEngine, its helpers

Max2(a, b) == IF a >= b THEN a ELSE b
Min2(a, b) == IF a <= b THEN a ELSE b

\* options.get(key, default): options is a dict, held as a set of
\* <<key, value>> pairs with at most one pair per key.
Get(options, key, default) ==
    IF \E kv \in options : kv[1] = key
    THEN (CHOOSE kv \in options : kv[1] = key)[2]
    ELSE default

\* The default of match_threshold, 0.75.  A threshold is held in hundredths:
\* 75 stands for 0.75.
DefaultThreshold == 75

\* A count taken over the unique terms: every term counted once.
CounterOfUnique(ts) == [t \in {ts[i] : i \in 1..Len(ts)} |-> 1]

\* Counter(terms): each term of the query with the number of times it occurs.
Counter(ts) ==
    [t \in {ts[i] : i \in 1..Len(ts)} |->
        Cardinality({i \in 1..Len(ts) : ts[i] = t})]

RECURSIVE UniqueOrEmptyTerm(_)
\* A term list as "".split(" ") would give it: an empty query yields one
\* empty term (held as term 0).
UniqueOrEmptyTerm(ts) ==
    IF ts = <<>> THEN <<0>>
    ELSE LET front == IF Len(ts) = 1 THEN <<>>
                      ELSE UniqueOrEmptyTerm(SubSeq(ts, 1, Len(ts) - 1))
             t == ts[Len(ts)]
         IN  IF \E i \in 1..Len(front) : front[i] = t
             THEN front ELSE Append(front, t)

RECURSIVE Unique(_)
\* list(Counter(terms)): the unique terms in order of first occurrence.
Unique(ts) ==
    IF ts = <<>> THEN <<>>
    ELSE LET front == Unique(SubSeq(ts, 1, Len(ts) - 1))
             t == ts[Len(ts)]
         IN  IF \E i \in 1..Len(front) : front[i] = t
             THEN front ELSE Append(front, t)

\* int(x) of Python for x = num / 100: truncation toward zero.
IntOfHundredths(num) ==
    IF num >= 0 THEN num \div 100 ELSE 0 - ((0 - num) \div 100)

\* A threshold without its lower limit of one term.
DerivedNUnlimited(m, treshold) == Min2(m, IntOfHundredths(treshold * m))

\* n = max(1, min(m, int(treshold * m)))
DerivedN(m, treshold) == Max2(1, Min2(m, IntOfHundredths(treshold * m)))

\* An engine that ignores the hit_count option.
MaxDocumentsIgnored(options) == {}

\* max_documents = options.get("hit_count"): None is held as the empty set,
\* a number k as {k}.
MaxDocuments(options) ==
    IF \E kv \in options : kv[1] = "hit_count"
    THEN {Get(options, "hit_count", 0)} ELSE {}

\* Sieve(size): the best-K collector, empty.
Sieve(size) == [size |-> size, heap |-> {}]

\* The order of the sieve's winners: higher score first, and among equal
\* scores the smaller document id first.
Before(x, y) == x[1] > y[1] \/ (x[1] = y[1] /\ x[2] < y[2])

\* sieve.sift(score, doc_id): the entry is admitted, and the lowest entry is
\* discarded when the sieve is over its capacity.
Sift(sv, score, doc_id) ==
    LET h == sv.heap \cup {<<score, doc_id>>}
        last == CHOOSE x \in h : \A y \in h \ {x} : Before(y, x)
    IN  IF sv.size = {} \/ (\E k \in sv.size : Cardinality(h) <= k)
        THEN [sv EXCEPT !.heap = h]
        ELSE [sv EXCEPT !.heap = h \ {last}]

RECURSIVE SortedEntries(_)
SortedEntries(h) ==
    IF h = {} THEN <<>>
    ELSE LET first == CHOOSE x \in h : \A y \in h \ {x} : Before(x, y)
         IN  <<first>> \o SortedEntries(h \ {first})

\* sieve.winners(): the retained entries by descending score.
Winners(sv) == SortedEntries(sv.heap)

\* ranker.reset(doc_id)
RankerReset(doc_id) == [document_id |-> doc_id, score |-> 0]

\* ranker.update(term, multiplicity, posting)
RankerUpdate(r, term, multiplicity, posting) ==
    [r EXCEPT !.score = @ + multiplicity * posting.term_frequency]

\* ranker.evaluate()
RankerEvaluate(r) == r.score

\* inverted_index.get_postings_iterator(term): a fresh iterator over the
\* term's posting list, empty for a term the index does not hold.
GetPostingsIterator(idx, term) == IF term \in DOMAIN idx THEN idx[term] ELSE <<>>

\* The calls of get_postings_iterator made by the list comprehension of
\* line 57: one per unique term, in order.
LookupCalls(ts) ==
    [i \in 1..Len(ts) |-> [call |-> "get_postings_iterator", term |-> ts[i]]]

\* next(iterator, None) over every iterator: the first posting of each list.
FirstPostings(its) ==
    [i \in 1..Len(its) |-> IF its[i] = <<>> THEN None ELSE Head(its[i])]

\* The iterators once their first posting is pulled.
AfterFirst(its) ==
    [i \in 1..Len(its) |-> IF its[i] = <<>> THEN <<>> ELSE Tail(its[i])]

\* A loop test written with all() in place of any(): the loop ends as soon as
\* one term has no posting left.
HasRemainingAll(ps) == ps # <<>> /\ \A i \in 1..Len(ps) : ps[i] # None

\* has_remaining_postings(postings_list)
HasRemainingPostings(ps) == \E i \in 1..Len(ps) : ps[i] # None

\* min(posting.document_id for posting in postings if posting is not None)
MinDocId(ps) == Min({ps[i].document_id : i \in {j \in 1..Len(ps) : ps[j] # None}})

\* A candidate group without the None test of line 68: the indices whose
\* stream has reported exhaustion are taken in as well.
MatchingOrExhausted(ps) ==
    {i \in 1..Len(ps) : ps[i] = None \/ ps[i].document_id = MinDocId(ps)}

\* The indices whose posting is at min_doc_id (the for loop of lines 67-69;
\* indices are 1-based here).
MatchingIndices(ps) ==
    {i \in 1..Len(ps) : ps[i] # None /\ ps[i].document_id = MinDocId(ps)}

\* A test that takes exactly n terms for a match.
IsMatchExactly(mi, k) == Cardinality(mi) = k

\* A test that takes more than n terms for a match.
IsMatchStrict(mi, k) == Cardinality(mi) > k

\* len(matching_indices) >= n
IsMatch(mi, k) == Cardinality(mi) >= k

RECURSIVE UpdateAll(_, _, _, _, _)
\* for idx in matching_indices: ranker.update(term, multiplicity, posting),
\* by ascending index.
UpdateAll(r, mi, ts, counts, ps) ==
    IF mi = {} THEN r
    ELSE LET i == Min(mi)
         IN  UpdateAll(RankerUpdate(r, ts[i], counts[ts[i]], ps[i]),
                       mi \ {i}, ts, counts, ps)

RECURSIVE UpdateCalls(_, _, _, _)
\* The update calls of one match, in the order they are made.
UpdateCalls(mi, ts, counts, ps) ==
    IF mi = {} THEN <<>>
    ELSE LET i == Min(mi)
         IN  <<[call |-> "update", term |-> ts[i], multiplicity |-> counts[ts[i]],
                posting |-> ps[i]]>>
             \o UpdateCalls(mi \ {i}, ts, counts, ps)

\* An advance that leaves the loop after the first matching index.
AdvanceFirstOnly(mi) == IF mi = {} THEN {} ELSE {Min(mi)}

\* The indices the for loop of lines 82-86 advances: all of matching_indices.
AdvancedIndices(mi) == mi

\* postings[idx] = next(posting_iterators[idx]), None on StopIteration.
NextPostings(ps, its, mi) ==
    [i \in 1..Len(ps) |->
        IF i \in AdvancedIndices(mi)
        THEN (IF its[i] = <<>> THEN None ELSE Head(its[i]))
        ELSE ps[i]]

NextIterators(its, mi) ==
    [i \in 1..Len(its) |->
        IF i \in AdvancedIndices(mi) /\ its[i] # <<>> THEN Tail(its[i]) ELSE its[i]]

\* The calls of next() made by line 58: one on every iterator.
FirstPulls(its) == [i \in 1..Len(its) |-> 1]

\* The calls of next() made by the for loop of lines 82-86: one on the
\* iterator of every index it visits.
NextPulls(pl, mi) ==
    [i \in 1..Len(pl) |-> IF i \in AdvancedIndices(mi) THEN pl[i] + 1 ELSE pl[i]]

RECURSIVE Fold(_, _)
\* functools.reduce over PostingsMerger.<op> of the posting lists.
Fold(op, lists) ==
    IF Len(lists) = 1 THEN lists[1]
    ELSE Merge(op, Fold(op, SubSeq(lists, 1, Len(lists) - 1)), lists[Len(lists)])

\* ------------------------------------------------------------------- state

VARIABLES
    listA, listB,       \* the posting lists behind iter1 and iter2
    gen,                \* the running PostingsMerger generator
    query,              \* evaluate's query, as its sequence of terms
    options,            \* evaluate's options
    index,              \* the inverted index: term -> posting list
    pc,                 \* where evaluate is
    terms,              \* the unique terms
    term_counts,        \* Counter(terms)
    n,                  \* the derived threshold
    sieve,              \* Sieve(max_documents)
    posting_iterators,  \* what each term's iterator has left
    postings,           \* the current posting of each term, or None
    matching_indices,   \* the candidate group of the current iteration
    ranker,             \* the ranker's accumulator
    calls,              \* the calls made to the ranker and the sieve, in order
    winners,            \* sieve.winners() not yet yielded
    results,            \* the dictionaries yielded to the caller
    iterations,         \* how many times the body of the merge loop was entered
    pulls,              \* how many times next() was called on each iterator
    suffix_array        \* a SuffixArray and the frame of its evaluate

mergerVars == <<listA, listB, gen>>

engineVars == <<query, options, index, pc, terms, term_counts, n, sieve,
                posting_iterators, postings, matching_indices, ranker, calls,
                winners, results, iterations, pulls>>

suffixVars == <<suffix_array>>

vars == <<mergerVars, engineVars, suffixVars>>

\* ---------------------------------------------------------------- SuffixArray

\* The space that " ".join puts between two tokens; the other characters are
\* numbered from 1, so that a space sorts before every one of them, as in
\* Python's comparison of strings.
Space == 0

\* The normalized tokens a text can hold: "a", "b" and "ab".
Tokens == {<<1>>, <<2>>, <<1, 2>>}

\* The token sequences of at most k tokens.
TokenSeqs(k) == UNION {[1..j -> Tokens] : j \in 0..k}

RECURSIVE Join(_)
\* " ".join(tokens)
Join(ts) ==
    IF ts = <<>> THEN <<>>
    ELSE IF Len(ts) = 1 THEN ts[1]
    ELSE ts[1] \o <<Space>> \o Join(Tail(ts))

\* SuffixArray.__normalize: the buffer is held as the tokens the tokenizer
\* and the normalizer make of it; what is returned is their join.
Normalize(buffer) == Join(buffer)

\* s < t for two strings, as Python compares them.
RECURSIVE StrLess(_, _)
StrLess(s, t) ==
    IF t = <<>> THEN FALSE
    ELSE IF s = <<>> THEN TRUE
    ELSE IF s[1] # t[1] THEN s[1] < t[1]
    ELSE StrLess(Tail(s), Tail(t))

\* The first loop of __build_suffix_array: one (document identifier,
\* searchable content) pair per document of the corpus, in corpus order.
Haystack(corpus) ==
    [k \in 1..Len(corpus) |-> <<corpus[k].document_id, Normalize(corpus[k].body)>>]

\* The offsets i of content with i == 0 or content[i - 1] == " ".
TokenStarts(content) ==
    {i \in 0..(Len(content) - 1) : i = 0 \/ content[i] = Space}

\* content[pos:]
From(content, pos) == SubSeq(content, pos + 1, Len(content))

\* The sort key of a (haystack index, start offset) pair: the suffix it
\* stands for.  Haystack indices count from 0.
Key(haystack, x) == From(haystack[x[1] + 1][2], x[2])

\* The offsets of a set, ascending.
Offsets(S) == SortedIds(S)

RECURSIVE UnsortedSuffixes(_, _)
\* The second loop of __build_suffix_array: the (haystack index, offset)
\* pairs of the first k haystack entries, in the order they are appended.
UnsortedSuffixes(haystack, k) ==
    IF k = 0 THEN <<>>
    ELSE UnsortedSuffixes(haystack, k - 1)
         \o [j \in 1..Cardinality(TokenStarts(haystack[k][2])) |->
                <<k - 1, Offsets(TokenStarts(haystack[k][2]))[j]>>]

\* x put into the sorted sequence xs behind every entry whose key is not
\* greater than its own.
Insert(haystack, xs, x) ==
    LET k == Cardinality({j \in 1..Len(xs) :
                 ~StrLess(Key(haystack, x), Key(haystack, xs[j]))})
    IN  SubSeq(xs, 1, k) \o <<x>> \o SubSeq(xs, k + 1, Len(xs))

RECURSIVE Sort(_, _)
\* list.sort(key=...): a stable sort by suffix.
Sort(haystack, xs) ==
    IF xs = <<>> THEN <<>>
    ELSE Insert(haystack, Sort(haystack, SubSeq(xs, 1, Len(xs) - 1)), xs[Len(xs)])

\* __build_suffix_array: the sorted suffix array of a haystack.
BuildSuffixArray(haystack) ==
    Sort(haystack, UnsortedSuffixes(haystack, Len(haystack)))

RECURSIVE BisectLeft(_, _, _, _, _)
\* bisect_left(suffixes, needle, key=...) between lo and hi.
BisectLeft(haystack, suffixes, needle, lo, hi) ==
    IF lo >= hi THEN lo
    ELSE LET mid == (lo + hi) \div 2
         IN  IF StrLess(Key(haystack, suffixes[mid + 1]), needle)
             THEN BisectLeft(haystack, suffixes, needle, mid + 1, hi)
             ELSE BisectLeft(haystack, suffixes, needle, lo, mid)

\* __binary_search
BinarySearch(haystack, suffixes, needle) ==
    BisectLeft(haystack, suffixes, needle, 0, Len(suffixes))

\* s[:k]
Prefix(s, k) == SubSeq(s, 1, Min2(k, Len(s)))

\* The test of the scan loop: the first character when the query is a single
\* character, the first len(query) characters otherwise.
ScanMatches(suffix_tokens, tokenized_query) ==
    IF Len(tokenized_query) = 1
    THEN suffix_tokens[1] = tokenized_query[1]
    ELSE Prefix(suffix_tokens, Len(tokenized_query)) = tokenized_query

\* counter[key] += 1 on a Counter held as its (key, count) pairs in order of
\* first insertion.
Increment(counter, key) ==
    IF \E j \in 1..Len(counter) : counter[j][1] = key
    THEN [j \in 1..Len(counter) |->
            IF counter[j][1] = key THEN <<key, counter[j][2] + 1>> ELSE counter[j]]
    ELSE Append(counter, <<key, 1>>)

\* options.get("hit_count", 5): the default.
DefaultHitCount == 5

\* x put into xs, sorted by count descending, behind every entry whose count
\* is not smaller than its own.
InsertByCount(xs, x) ==
    LET k == Cardinality({j \in 1..Len(xs) : xs[j][2] >= x[2]})
    IN  SubSeq(xs, 1, k) \o <<x>> \o SubSeq(xs, k + 1, Len(xs))

RECURSIVE ByCount(_)
\* sorted(counter.items(), key=count, reverse=True): stable, so that equal
\* counts stay in order of first insertion.
ByCount(counter) ==
    IF counter = <<>> THEN <<>>
    ELSE InsertByCount(ByCount(SubSeq(counter, 1, Len(counter) - 1)),
                       counter[Len(counter)])

\* counter.most_common(k): the k (key, count) pairs of greatest count, none
\* when k is not positive.
MostCommon(counter, k) == SubSeq(ByCount(counter), 1, Min2(Max2(k, 0), Len(counter)))

\* A document of the corpus: its identifier and the tokens of its fields.
Document(document_id, body) == [document_id |-> document_id, body |-> body]

\* corpus.get_document(document_id): the document that carries the identifier.
GetDocument(corpus, document_id) ==
    CHOOSE doc \in {corpus[k] : k \in 1..Len(corpus)} : doc.document_id = document_id

\* A SuffixArray built over a corpus (__init__), and a call of its evaluate
\* that has not run its first line.
NewSuffixArray(corpus, q, opts) ==
    [pc |-> "call", corpus |-> corpus, haystack |-> Haystack(corpus),
     suffixes |-> BuildSuffixArray(Haystack(corpus)),
     query |-> q, options |-> opts, tokenized_query |-> <<>>,
     i |-> 0, counter |-> <<>>, hits |-> <<>>, results |-> <<>>]

\* No SuffixArray is in use.
NoSuffixArray ==
    suffix_array = [NewSuffixArray(<<>>, <<>>, {}) EXCEPT !.pc = "idle"]

\* The three generators of PostingsMerger.
MergerOps == {"intersection", "union", "difference"}

\* The posting lists a caller can pass: strictly increasing in document_id,
\* no duplicates, possibly empty.  The postings of the first list carry term
\* frequency 1 and those of the second 2, which tells the operands apart.
ListsA == {PostingList(S, 1) : S \in SUBSET (1..MaxDoc)}
ListsB == {PostingList(S, 2) : S \in SUBSET (1..MaxDoc)}

\* No call of evaluate is under way.
NoEvaluate ==
    /\ query = <<>> /\ options = {} /\ index = <<>>
    /\ pc = "idle"
    /\ terms = <<>> /\ term_counts = <<>> /\ n = 0
    /\ sieve = Sieve({})
    /\ posting_iterators = <<>> /\ postings = <<>>
    /\ matching_indices = {}
    /\ ranker = RankerReset(0)
    /\ calls = <<>> /\ winners = <<>> /\ results = <<>>
    /\ iterations = 0 /\ pulls = <<>>

\* No generator of PostingsMerger is under way.
NoMerger ==
    /\ listA = <<>> /\ listB = <<>>
    /\ gen = [NewGenerator("none", <<>>, <<>>) EXCEPT !.pc = "done"]

\* A call PostingsMerger.<op>(iter(listA), iter(listB)), not yet pulled from.
InitMerger ==
    /\ listA \in ListsA
    /\ listB \in ListsB
    /\ \E op \in MergerOps : gen = NewGenerator(op, listA, listB)
    /\ NoEvaluate /\ NoSuffixArray

\* The consumer pulls from PostingsMerger.intersection.
Intersection ==
    /\ gen.op = "intersection" /\ gen.pc # "done"
    /\ gen' = IntersectionStep(gen)
    /\ UNCHANGED <<listA, listB, engineVars, suffixVars>>

\* The consumer pulls from PostingsMerger.union.
Union ==
    /\ gen.op = "union" /\ gen.pc # "done"
    /\ gen' = UnionStep(gen)
    /\ UNCHANGED <<listA, listB, engineVars, suffixVars>>

\* The consumer pulls from PostingsMerger.difference.
Difference ==
    /\ gen.op = "difference" /\ gen.pc # "done"
    /\ gen' = DifferenceStep(gen)
    /\ UNCHANGED <<listA, listB, engineVars, suffixVars>>

NextMerger == Intersection \/ Union \/ Difference

\* PostingsMerger on every pair of posting lists over 1..MaxDoc.
SpecMerger == InitMerger /\ [][NextMerger]_vars

\* The generator of `op' has returned.
Returned(op) == gen.op = op /\ gen.pc = "done"

IdsA == IdSet(listA)
IdsB == IdSet(listB)

\* ------------------------------------------------ SimpleSearchEngine.evaluate

\* Lines 49-58: the unique terms and their counts, the threshold n, the sieve,
\* one iterator per term (each a call of the index) and the first posting of
\* each.
Evaluate ==
    /\ pc = "call"
    /\ terms' = Unique(query)
    /\ term_counts' = Counter(query)
    /\ n' = DerivedN(Len(terms'), Get(options, "match_threshold", DefaultThreshold))
    /\ sieve' = Sieve(MaxDocuments(options))
    /\ LET its == [i \in 1..Len(terms') |-> GetPostingsIterator(index, terms'[i])]
       IN  /\ postings' = FirstPostings(its)
           /\ posting_iterators' = AfterFirst(its)
           /\ pulls' = FirstPulls(its)
    /\ calls' = calls \o LookupCalls(terms')
    /\ iterations' = 0
    /\ pc' = "loop"
    /\ UNCHANGED <<mergerVars, suffixVars, query, options, index,
                   matching_indices, ranker,
                   winners, results>>

\* Lines 63-80: one iteration of the merge loop up to the sift: the candidate
\* group at the smallest document id, scored and sifted when it holds at least
\* n terms.
Match ==
    /\ pc = "loop"
    /\ HasRemainingPostings(postings)
    /\ matching_indices' = MatchingIndices(postings)
    /\ IF IsMatch(matching_indices', n)
       THEN LET doc_id == MinDocId(postings)
                r == UpdateAll(RankerReset(doc_id), matching_indices', terms,
                               term_counts, postings)
                score == RankerEvaluate(r)
            IN  /\ ranker' = r
                /\ sieve' = Sift(sieve, score, doc_id)
                /\ calls' = calls
                        \o <<[call |-> "reset", document_id |-> doc_id]>>
                        \o UpdateCalls(matching_indices', terms, term_counts, postings)
                        \o <<[call |-> "evaluate", score |-> score],
                             [call |-> "sift", score |-> score, document_id |-> doc_id]>>
       ELSE UNCHANGED <<ranker, sieve, calls>>
    /\ pc' = "advance"
    /\ iterations' = iterations + 1
    /\ UNCHANGED <<mergerVars, suffixVars, query, options, index,
                   terms, term_counts, n,
                   posting_iterators, postings, winners, results, pulls>>

\* Lines 82-86: every cursor of the candidate group moves to its next posting.
Advance ==
    /\ pc = "advance"
    /\ postings' = NextPostings(postings, posting_iterators, matching_indices)
    /\ posting_iterators' = NextIterators(posting_iterators, matching_indices)
    /\ pc' = "loop"
    /\ pulls' = NextPulls(pulls, matching_indices)
    /\ UNCHANGED <<mergerVars, suffixVars, query, options, index,
                   terms, term_counts, n, sieve,
                   matching_indices, ranker, calls, winners, results, iterations>>

\* Line 88, reached when no term has a posting left: the sieve is drained.
Drain ==
    /\ pc = "loop"
    /\ ~HasRemainingPostings(postings)
    /\ winners' = Winners(sieve)
    /\ pc' = "winners"
    /\ UNCHANGED <<mergerVars, suffixVars, query, options, index,
                   terms, term_counts, n, sieve,
                   posting_iterators, postings, matching_indices, ranker, calls,
                   results, iterations, pulls>>

\* Line 89: the next winner is yielded; corpus.get_document(doc_id) is held
\* as the document id.
YieldResult ==
    /\ pc = "winners"
    /\ winners # <<>>
    /\ results' = Append(results,
                         [score |-> Head(winners)[1], document |-> Head(winners)[2]])
    /\ winners' = Tail(winners)
    /\ UNCHANGED <<mergerVars, suffixVars, query, options, index,
                   pc, terms, term_counts, n,
                   sieve, posting_iterators, postings, matching_indices, ranker,
                   calls, iterations, pulls>>

\* The for loop of line 88 ends and evaluate returns.
Return ==
    /\ pc = "winners"
    /\ winners = <<>>
    /\ pc' = "done"
    /\ UNCHANGED <<mergerVars, suffixVars, query, options, index,
                   terms, term_counts, n, sieve,
                   posting_iterators, postings, matching_indices, ranker, calls,
                   winners, results, iterations, pulls>>

NextEngine == Evaluate \/ Match \/ Advance \/ Drain \/ YieldResult \/ Return

\* An inverted index over the terms 1..k: one strictly increasing posting list
\* per term, over the document ids `docs', every term frequency 1.
Indexes(k, docs) == [1..k -> {PostingList(S, 1) : S \in SUBSET docs}]

\* The number of unique terms of a query whose terms are numbered 1..k.
NumTerms(q) == Cardinality({q[i] : i \in 1..Len(q)})

\* The queries tried: no term, one term, a repeated term, two and three terms.
Queries == {<<>>, <<1>>, <<1, 1>>, <<1, 2>>, <<1, 2, 1>>, <<1, 2, 3>>}

\* The options tried: none, a match_threshold, a hit_count, or both.
EngineOptions ==
    {{}}
    \cup {{<<"match_threshold", t>>} : t \in {0, 67, 100}}
    \cup {{<<"hit_count", h>>} : h \in 0..MaxHits}
    \cup {{<<"match_threshold", 0>>, <<"hit_count", 1>>}}

\* The state of a call of evaluate before its first line.
Called ==
    /\ pc = "call"
    /\ terms = <<>> /\ term_counts = <<>> /\ n = 0
    /\ sieve = Sieve({})
    /\ posting_iterators = <<>> /\ postings = <<>>
    /\ matching_indices = {}
    /\ ranker = RankerReset(0)
    /\ calls = <<>> /\ winners = <<>> /\ results = <<>>
    /\ iterations = 0 /\ pulls = <<>>

\* A call of evaluate over an index on 1..MaxDocId.
InitEngine ==
    /\ NoMerger /\ NoSuffixArray
    /\ query \in Queries
    /\ options \in EngineOptions
    /\ index \in Indexes(NumTerms(query), 1..MaxDocId)
    /\ Called

\* evaluate on every index over 1..MaxDocId for the queries and options tried.
SpecEngine == InitEngine /\ [][NextEngine]_vars

\* The thresholds tried, in hundredths.
Thresholds == (0 - PctSpan)..(100 + PctSpan)

\* A call of evaluate with one to MaxTerms unique terms, any threshold (or
\* none), over an index holding at most document 1.
InitThreshold ==
    /\ NoMerger /\ NoSuffixArray
    /\ \E k \in 1..MaxTerms :
        /\ query = [i \in 1..k |-> i]
        /\ index \in Indexes(k, {1})
    /\ options \in {{}} \cup {{<<"match_threshold", t>>} : t \in Thresholds}
    /\ Called

\* evaluate for every number of terms and every threshold tried.
SpecThreshold == InitThreshold /\ [][NextEngine]_vars

\* The queries tried with invalid options and with failing collaborators: one
\* term, two terms, and two terms of which one is repeated.
SmallQueries == {<<1>>, <<1, 2>>, <<1, 2, 1>>}

\* A call of evaluate with a hit_count from -MaxHits to MaxHits.
InitHitCount ==
    /\ NoMerger /\ NoSuffixArray
    /\ query \in SmallQueries
    /\ options \in {{<<"hit_count", h>>} : h \in (0 - MaxHits)..MaxHits}
    /\ index \in Indexes(NumTerms(query), 1..MaxDocId)
    /\ Called

\* evaluate for every hit_count tried, the negative ones included.
SpecHitCount == InitHitCount /\ [][NextEngine]_vars

\* Lines 73-79 when the ranker raises in reset, update or evaluate: nothing
\* catches the exception, the generator ends with it and the sieve is dropped
\* with the frame.
RankerRaises ==
    /\ pc = "loop"
    /\ HasRemainingPostings(postings)
    /\ IsMatch(MatchingIndices(postings), n)
    /\ matching_indices' = MatchingIndices(postings)
    /\ pc' = "raised"
    /\ iterations' = iterations + 1
    /\ UNCHANGED <<mergerVars, suffixVars, query, options, index,
                   terms, term_counts, n, sieve,
                   posting_iterators, postings, ranker, calls, winners, results, pulls>>

\* Lines 82-86 when next() on the iterator of index k raises an exception
\* other than StopIteration: the cursors of the group before k are advanced,
\* the exception is not caught and the generator ends with it.
StreamRaises ==
    /\ pc = "advance"
    /\ \E k \in matching_indices :
        LET before == {i \in matching_indices : i < k}
        IN  /\ postings' = NextPostings(postings, posting_iterators, before)
            /\ posting_iterators' = NextIterators(posting_iterators, before)
            /\ pulls' = NextPulls(pulls, before \cup {k})
    /\ pc' = "raised"
    /\ UNCHANGED <<mergerVars, suffixVars, query, options, index,
                   terms, term_counts, n, sieve,
                   matching_indices, ranker, calls, winners, results, iterations>>

NextFailure == NextEngine \/ RankerRaises \/ StreamRaises

\* A call of evaluate whose ranker and posting streams may fail.
InitFailure ==
    /\ NoMerger /\ NoSuffixArray
    /\ query \in SmallQueries
    /\ options \in {{}, {<<"match_threshold", 0>>}, {<<"hit_count", 1>>}}
    /\ index \in Indexes(NumTerms(query), 1..MaxDocId)
    /\ Called

\* evaluate with collaborators that may raise inside the merge loop.
SpecFailure == InitFailure /\ [][NextFailure]_vars

\* The steps evaluate takes on its own once called, up to the end of the
\* merge loop: they run in one thread, inside the caller's first next().
MergeLoop == Evaluate \/ Match \/ Advance \/ Drain

\* A call of evaluate with one to three unique terms, with the default
\* threshold or with threshold 0.
InitTermination ==
    /\ NoMerger /\ NoSuffixArray
    /\ query \in SmallQueries \cup {<<1, 2, 3>>}
    /\ options \in {{}, {<<"match_threshold", 0>>}}
    /\ index \in Indexes(NumTerms(query), 1..MaxDocId)
    /\ Called

\* evaluate run by a thread that keeps executing the merge loop.
SpecTermination ==
    InitTermination /\ [][NextEngine]_vars /\ WF_vars(MergeLoop)

\* ---------------------------------------------------- SuffixArray.evaluate

\* Lines 87-95: the query is normalized; an empty one ends the generator,
\* any other is looked up by binary search.
SuffixEvaluate ==
    /\ suffix_array.pc = "call"
    /\ LET tokenized_query == Normalize(suffix_array.query)
       IN  suffix_array' =
             IF tokenized_query = <<>>
             THEN [suffix_array EXCEPT !.pc = "done"]
             ELSE [suffix_array EXCEPT
                     !.tokenized_query = tokenized_query,
                     !.i = BinarySearch(suffix_array.haystack, suffix_array.suffixes,
                                        tokenized_query),
                     !.pc = "scan"]
    /\ UNCHANGED <<mergerVars, engineVars>>

\* Lines 99-114: one iteration of the scan over the suffixes from start_idx.
\* The pair unpacked as (doc_id, pos) is a (haystack index, offset) pair; the
\* counter is keyed by its first component.
SuffixScan ==
    /\ suffix_array.pc = "scan"
    /\ suffix_array.i < Len(suffix_array.suffixes)
    /\ LET doc_id == suffix_array.suffixes[suffix_array.i + 1][1]
           pos == suffix_array.suffixes[suffix_array.i + 1][2]
           tokenized_content == suffix_array.haystack[doc_id + 1][2]
           suffix_tokens == From(tokenized_content, pos)
       IN  suffix_array' =
             IF ScanMatches(suffix_tokens, suffix_array.tokenized_query)
             THEN [suffix_array EXCEPT
                     !.counter = Increment(@, doc_id), !.i = @ + 1]
             ELSE [suffix_array EXCEPT !.pc = "rank"]
    /\ UNCHANGED <<mergerVars, engineVars>>

\* Line 116, reached by the break or at the end of the suffixes: the counter
\* is ranked and cut to hit_count.
SuffixRank ==
    /\ \/ suffix_array.pc = "rank"
       \/ /\ suffix_array.pc = "scan"
          /\ suffix_array.i = Len(suffix_array.suffixes)
    /\ suffix_array' =
         [suffix_array EXCEPT
            !.hits = MostCommon(suffix_array.counter,
                                Get(suffix_array.options, "hit_count", DefaultHitCount)),
            !.pc = "yield"]
    /\ UNCHANGED <<mergerVars, engineVars>>

\* Lines 117-121: the next hit is yielded, its document fetched from the
\* corpus by the counter's key.
SuffixYield ==
    /\ suffix_array.pc = "yield"
    /\ suffix_array.hits # <<>>
    /\ LET doc_id == Head(suffix_array.hits)[1]
           score == Head(suffix_array.hits)[2]
       IN  suffix_array' =
             [suffix_array EXCEPT
                !.results = Append(@, [document |-> GetDocument(suffix_array.corpus, doc_id),
                                       score |-> score]),
                !.hits = Tail(@)]
    /\ UNCHANGED <<mergerVars, engineVars>>

\* The for loop of line 116 ends and evaluate returns.
SuffixReturn ==
    /\ suffix_array.pc = "yield"
    /\ suffix_array.hits = <<>>
    /\ suffix_array' = [suffix_array EXCEPT !.pc = "done"]
    /\ UNCHANGED <<mergerVars, engineVars>>

NextSuffix ==
    SuffixEvaluate \/ SuffixScan \/ SuffixRank \/ SuffixYield \/ SuffixReturn

\* The ways a corpus of k documents numbers them: by position from 0, or by
\* position from the end.
Numberings(k) == {[j \in 1..k |-> j - 1], [j \in 1..k |-> k - j]}

\* The corpora of two documents with up to MaxTokens tokens each.
PairCorpora ==
    {[j \in 1..2 |-> Document(ids[j], bodies[j])] :
        ids \in Numberings(2), bodies \in [1..2 -> TokenSeqs(MaxTokens)]}

\* The corpora of ManyDocs documents of one token each, "a" or "b".
ManyCorpora ==
    {[j \in 1..ManyDocs |-> Document(ids[j], <<bodies[j]>>)] :
        ids \in Numberings(ManyDocs), bodies \in [1..ManyDocs -> {<<1>>, <<2>>}]}

\* The queries tried, as tokens: none, "a", "b", "ab", "a a", "a b", "b a".
SuffixQueries ==
    {<<>>, <<<<1>>>>, <<<<2>>>>, <<<<1, 2>>>>,
     <<<<1>>, <<1>>>>, <<<<1>>, <<2>>>>, <<<<2>>, <<1>>>>}

\* A SuffixArray over a small corpus and a call of its evaluate, with no
\* hit_count or with one from 0 to MaxHits.
InitSuffix ==
    /\ NoMerger /\ NoEvaluate
    /\ \E corpus \in PairCorpora \cup ManyCorpora :
       \E q \in SuffixQueries :
       \E opts \in {{}} \cup {{<<"hit_count", h>>} : h \in 0..MaxHits} :
            suffix_array = NewSuffixArray(corpus, q, opts)

\* SuffixArray.evaluate over every corpus, query and hit_count tried.
SpecSuffix == InitSuffix /\ [][NextSuffix]_vars

\* The number of unique terms, M.
M == Len(terms)

\* The posting lists of the unique terms.
TermLists == [i \in 1..M |-> index[terms[i]]]

\* The number of terms whose posting list holds document d.
TermsHolding(d) == Cardinality({i \in 1..M : d \in IdSet(TermLists[i])})

\* Every document id of the index.
AllDocIds == UNION {IdSet(TermLists[i]) : i \in 1..M}

\* The document ids passed to ranker.reset, and to sieve.sift.
ResetIds == {calls[i].document_id : i \in {j \in 1..Len(calls) : calls[j].call = "reset"}}
SiftedIds == {calls[i].document_id : i \in {j \in 1..Len(calls) : calls[j].call = "sift"}}

\* The number of sift calls made.
SiftCount == Cardinality({j \in 1..Len(calls) : calls[j].call = "sift"})

\* The document ids yielded to the caller.
ResultIds == {results[i].document : i \in 1..Len(results)}

\* The merge loop has ended.
LoopEnded == pc \in {"winners", "done"}

\* ---------------------------------------------------------- claims, merger

\* C1: difference(A, B) emits exactly the ids of A that do not occur in B, in
\* ascending order; no emitted id occurs in B, also when the last id of A is
\* matched by an id of B.
C1_DifferenceIsSetDifference ==
    Returned("difference") => DocIds(gen.out) = SortedIds(IdsA \ IdsB)

\* C2: intersection(A, B) emits exactly the ids present in both A and B, each
\* once, in ascending order, and at most min(|A|, |B|) postings.
C2_IntersectionIsSetIntersection ==
    Returned("intersection") =>
        /\ DocIds(gen.out) = SortedIds(IdsA \cap IdsB)
        /\ Len(gen.out) <= Len(listA)
        /\ Len(gen.out) <= Len(listB)

\* An intersection that has returned after emitting two postings from lists
\* that each hold an id the other lacks.
C2_Witness ==
    /\ Returned("intersection")
    /\ Len(gen.out) >= 2
    /\ IdsA \ IdsB # {}
    /\ IdsB \ IdsA # {}

\* C3: union(A, B) emits exactly one posting per distinct id of A or B, in
\* strictly ascending id order, also when either list is empty or one is
\* exhausted before the other.
C3_UnionIsSetUnion ==
    Returned("union") =>
        /\ DocIds(gen.out) = SortedIds(IdsA \cup IdsB)
        /\ Ascending(DocIds(gen.out))

\* A union that has returned after the first list ran out inside the loop on
\* an id both lists hold, with more of the second list left to emit.
C3_Witness ==
    /\ Returned("union")
    /\ listA # <<>>
    /\ listA[Len(listA)].document_id \in IdsB
    /\ \E d \in IdsB : d > listA[Len(listA)].document_id
    /\ IdsA \ IdsB # {}

\* C4: the ids of union(A, B) are the ids of intersection(A, B), of
\* difference(A, B) and of difference(B, A) together, and these three id sets
\* are pairwise disjoint.
C4_PartitionLaw ==
    gen.pc = "done" =>
        LET u == IdSet(Merge("union", listA, listB))
            i == IdSet(Merge("intersection", listA, listB))
            ab == IdSet(Merge("difference", listA, listB))
            ba == IdSet(Merge("difference", listB, listA))
        IN  /\ u = i \cup ab \cup ba
            /\ i \cap ab = {}
            /\ i \cap ba = {}
            /\ ab \cap ba = {}

\* ---------------------------------------------------------- claims, engine

\* The document ids held by at least n of the M posting lists.
QualifyingIds == {d \in AllDocIds : TermsHolding(d) >= n}

HasOption(key) == \E kv \in options : kv[1] = key

\* C5: for a query with M >= 1 unique terms and no hit_count, the document
\* ids evaluate scores and sifts, and returns, are exactly the ids held by at
\* least N of the M posting lists; an id held by fewer is never passed to the
\* ranker or the sieve.
C5_NofMMatching ==
    (M >= 1 /\ ~HasOption("hit_count")) =>
        /\ ResetIds \subseteq QualifyingIds
        /\ SiftedIds \subseteq QualifyingIds
        /\ LoopEnded => SiftedIds = QualifyingIds /\ ResetIds = QualifyingIds
        /\ pc = "done" => ResultIds = QualifyingIds

\* A 2-of-3 evaluation that has returned, with a document held by all three
\* terms, one held by two and one held by a single term.
C5_Witness ==
    /\ pc = "done" /\ M = 3 /\ n = 2 /\ ~HasOption("hit_count")
    /\ \E d \in AllDocIds : TermsHolding(d) = 3
    /\ \E d \in AllDocIds : TermsHolding(d) = 2
    /\ \E d \in AllDocIds : TermsHolding(d) = 1

\* match_threshold as evaluate reads it, in hundredths.
Threshold == Get(options, "match_threshold", DefaultThreshold)

\* T clamped to [0, 1], in hundredths.
Clamped(t) == Max2(0, Min2(100, t))

C7_ThreeOfFour ==
    (M = 4 /\ Threshold = 70) =>
        \A d \in SiftedIds \cup ResultIds : TermsHolding(d) >= 3

\* C8: when N = M, the document ids evaluate matches are the ids of
\* PostingsMerger.intersection folded over the M posting lists.
C8_AllTermsIsIntersection ==
    (LoopEnded /\ M >= 1 /\ n = M) =>
        SiftedIds = IdSet(Fold("intersection", TermLists))

\* A 3-of-3 evaluation past its loop that matched a document and passed over
\* one held by two terms only.
C8_Witness ==
    /\ LoopEnded /\ M = 3 /\ n = 3
    /\ SiftedIds # {}
    /\ \E d \in AllDocIds : TermsHolding(d) = 2

\* C9: when N = 1, the document ids evaluate matches are the ids of
\* PostingsMerger.union folded over the M posting lists, each id matched once.
C9_OneTermIsUnion ==
    (LoopEnded /\ M >= 1 /\ n = 1) =>
        /\ SiftedIds = IdSet(Fold("union", TermLists))
        /\ SiftCount = Len(Fold("union", TermLists))

\* A 1-of-3 evaluation past its loop with a document held by one term and a
\* document held by all three.
C9_Witness ==
    /\ LoopEnded /\ M = 3 /\ n = 1
    /\ \E d \in AllDocIds : TermsHolding(d) = 1
    /\ \E d \in AllDocIds : TermsHolding(d) = 3

\* C10: when hit_count is given, evaluate yields at most hit_count results,
\* in non-increasing order of score.
C10_HitCountBound ==
    HasOption("hit_count") =>
        /\ Len(results) <= Get(options, "hit_count", 0)
        /\ \A i \in 1..Len(results) - 1 : results[i].score >= results[i + 1].score

\* An evaluation with hit_count 2 that has returned two results of different
\* scores out of three sifted documents.
C10_Witness ==
    /\ pc = "done"
    /\ HasOption("hit_count") /\ Get(options, "hit_count", 0) = 2
    /\ SiftCount = 3
    /\ Len(results) = 2
    /\ results[1].score > results[2].score

\* The calls made so far to the collaborator operation `name'.
CallsTo(name) == {j \in 1..Len(calls) : calls[j].call = name}

\* C11: a query with no term yields no result, never calls ranker.reset,
\* ranker.update or ranker.evaluate, and never asks the inverted index for a
\* postings iterator.
C11_EmptyQuery ==
    query = <<>> =>
        /\ results = <<>>
        /\ CallsTo("reset") = {} /\ CallsTo("update") = {}
        /\ CallsTo("evaluate") = {}
        /\ CallsTo("get_postings_iterator") = {}

\* An evaluation of the empty query that has returned.
C11_Witness == query = <<>> /\ pc = "done" /\ M = 0

\* C12: given a negative hit_count, evaluate signals a configuration error
\* before any posting stream is obtained from the index or pulled, and does
\* not run the merge loop.
C12_NegativeHitCountRejected ==
    (HasOption("hit_count") /\ Get(options, "hit_count", 0) < 0) =>
        /\ pc \in {"call", "rejected"}
        /\ CallsTo("get_postings_iterator") = {}
        /\ postings = <<>>
        /\ CallsTo("sift") = {}

\* Every cursor is exhausted.
AllExhausted == \A i \in 1..Len(postings) : postings[i] = None

\* C13: when the ranker or a posting stream fails inside the merge loop,
\* evaluate has yielded no result before the failure reaches the caller; no
\* result is yielded until every cursor is exhausted.
C13_AllOrNothing ==
    /\ pc \in {"loop", "advance", "raised"} => results = <<>>
    /\ results # <<>> => AllExhausted /\ pc \in {"winners", "done"}

\* A failure inside the loop after a document was scored and sifted.
C13_Witness ==
    /\ pc = "raised"
    /\ CallsTo("sift") # {}
    /\ ~AllExhausted

\* ------------------------------------------------- claims, merger (laziness)

\* What the generator frame g has pulled from its first and second input.
PulledFrom1(g) == SubSeq(listA, 1, Len(listA) - Len(g.iter1))
PulledFrom2(g) == SubSeq(listB, 1, Len(listB) - Len(g.iter2))

\* The number of postings of ps with an id above d.
Ahead(ps, d) == Cardinality({i \in 1..Len(ps) : ps[i].document_id > d})

\* C14: when intersection, union or difference yields a posting with id d, it
\* has pulled at most one posting with an id above d from each input; a step
\* yields one posting at most and pulls one posting at most from each input.
C14_Laziness ==
    [][/\ Len(gen'.out) <= Len(gen.out) + 1
       /\ Len(gen'.iter1) >= Len(gen.iter1) - 1
       /\ Len(gen'.iter2) >= Len(gen.iter2) - 1
       /\ gen'.out # gen.out =>
            LET d == gen'.out[Len(gen'.out)].document_id
            IN  /\ Ahead(PulledFrom1(gen'), d) <= 1
                /\ Ahead(PulledFrom2(gen'), d) <= 1]_vars

\* A difference that has just yielded a posting of the first input while it
\* holds one posting of the second input with a larger id, both inputs
\* having more to give.
C14_Witness ==
    /\ gen.op = "difference" /\ gen.pc = "yielded"
    /\ gen.out # <<>>
    /\ gen.pointer2.document_id > gen.out[Len(gen.out)].document_id
    /\ gen.iter1 # <<>> /\ gen.iter2 # <<>>

\* The generator step taken from the current state ends the generator.
Stops == gen.pc # "done" /\ gen'.pc = "done"

\* C15: as soon as a pull of intersection finds its stream exhausted the
\* generator ends in that very step: nothing is emitted, nothing is pulled
\* from the other stream after the exhaustion, and a generator that has ended
\* never moves again; the stream that survives keeps what it had left.
C15_IntersectionEarlyStop ==
    [][gen.op = "intersection" =>
         /\ gen.pc \in {"start", "yielded"}
               /\ (gen.iter1 = <<>> \/ gen.iter2 = <<>>) => Stops
         /\ Stops =>
               /\ gen'.out = gen.out
               /\ gen.iter1 = <<>> \/ gen.iter2 = <<>>
               /\ gen.iter1 = <<>> => gen'.iter2 = gen.iter2
               /\ gen.iter1 # <<>> =>
                     /\ gen'.iter2 = <<>>
                     /\ gen'.iter1 \in {gen.iter1, Tail(gen.iter1)}
         /\ gen.pc = "done" => gen' = gen]_vars

\* An intersection that has returned after a match because the first list
\* ran out, leaving at least two postings of the second list unpulled.
C15_Witness ==
    /\ Returned("intersection")
    /\ gen.out # <<>>
    /\ gen.iter1 = <<>>
    /\ Len(gen.iter2) >= 2
    /\ gen.pointer1.document_id = gen.pointer2.document_id

\* How many times document id d occurs among the postings ps.
Occurrences(ps, d) == Cardinality({i \in 1..Len(ps) : ps[i].document_id = d})

\* The postings of a sequence, as a set.
Range(ps) == {ps[i] : i \in 1..Len(ps)}

\* C16: difference(A, B) emits every posting of A whose id is not in B exactly
\* once; what it emits is a strictly ascending subsequence of A, so no posting
\* is emitted twice and none is a posting of B; and once B is exhausted each
\* further step emits the next posting of A, down to the last.
C16_DifferenceCompleteness ==
    /\ [](Returned("difference") =>
            /\ \A d \in IdsA \ IdsB : Occurrences(gen.out, d) = 1
            /\ Ascending(DocIds(gen.out))
            /\ Range(gen.out) \subseteq Range(listA)
            /\ gen.iter1 = <<>>)
    /\ [][gen.op = "difference" /\ gen.pc \in {"from1", "remaining"}
             /\ gen.iter1 # <<>> =>
                 /\ gen'.out = Append(gen.out, Head(gen.iter1))
                 /\ gen'.iter1 = Tail(gen.iter1)]_vars

\* A difference that has returned after the second list ran out inside the
\* loop, having emitted postings both before and after that, and having
\* skipped an id the lists share.
C16_Witness ==
    /\ Returned("difference")
    /\ gen.iter2 = <<>>
    /\ IdsA \cap IdsB # {}
    /\ \E d \in IdsA : \A e \in IdsB : d < e
    /\ Cardinality({d \in IdsA : \A e \in IdsB : d > e}) >= 2
    /\ Len(gen.out) = Cardinality(IdsA \ IdsB)

\* C17: for an id that occurs in both lists, the posting that intersection
\* and union emit is the first list's posting as it stands, term frequency
\* included, never the second list's and never a combination; this holds at
\* every point of the run, the tails after an exhausted stream included.
C17_LeftOperandWins ==
    gen.op \in {"intersection", "union"} =>
        \A i \in 1..Len(gen.out) :
            gen.out[i].document_id \in IdsA \cap IdsB =>
                /\ gen.out[i] \in Range(listA)
                /\ gen.out[i] \notin Range(listB)
                /\ Occurrences(gen.out, gen.out[i].document_id) = 1

\* A union that has returned after the first list ran out on a shared id,
\* so that the second list's posting of that id went through the tail, with
\* a shared id emitted inside the loop as well.
C17_Witness ==
    /\ Returned("union")
    /\ Cardinality(IdsA \cap IdsB) >= 2
    /\ listA[Len(listA)].document_id \in IdsB
    /\ listB[Len(listB)].document_id \notin IdsA
    /\ Len(gen.out) = Cardinality(IdsA \cup IdsB)

\* C18: between two yields union retains one look-ahead posting per input
\* and nothing that grows with what it has consumed or emitted: has_seen
\* holds no document id other than those of the two look-ahead postings.
C18_BoundedRetainedState ==
    gen.op = "union" =>
        gen.has_seen \subseteq
            {gen.pointer1.document_id, gen.pointer2.document_id}

\* The calls appended by the step taken from the current state.
NewCalls == SubSeq(calls', Len(calls) + 1, Len(calls'))

\* The Candidate Group of the current state: the cursors at the smallest
\* document id.
Group ==
    {i \in 1..Len(postings) :
        postings[i] # None /\ postings[i].document_id = MinDocId(postings)}

\* The number of times term t occurs in the query.
Multiplicity(t) == Cardinality({j \in 1..Len(query) : query[j] = t})

\* C19: in one iteration of the merge loop a matching group at document id d
\* causes exactly the calls reset(d), then one update per term of the group
\* (the term, its multiplicity in the query, the cursor's posting at d; in
\* any order), then one evaluate(), then one sift(score, d), and no cursor
\* has moved when the last of them is made; a group that does not match
\* causes no call, and no other step calls the ranker or the sieve.
C19_RankerProtocol ==
    [][/\ pc = "loop" /\ pc' = "advance" =>
            LET d == MinDocId(postings)
                k == Cardinality(Group)
                new == NewCalls
            IN  IF k >= n
                THEN /\ Len(new) = k + 3
                     /\ new[1] = [call |-> "reset", document_id |-> d]
                     /\ \A i \in Group :
                           /\ postings[i].document_id = d
                           /\ Cardinality({j \in 2..(k + 1) :
                                 new[j] = [call |-> "update", term |-> terms[i],
                                           multiplicity |-> Multiplicity(terms[i]),
                                           posting |-> postings[i]]}) = 1
                     /\ new[k + 2].call = "evaluate"
                     /\ new[k + 3] = [call |-> "sift", score |-> new[k + 2].score,
                                      document_id |-> d]
                     /\ postings' = postings
                     /\ posting_iterators' = posting_iterators
                ELSE calls' = calls
       /\ ~(pc = "loop" /\ pc' = "advance") =>
            \A j \in 1..Len(NewCalls) :
                NewCalls[j].call = "get_postings_iterator"]_vars

\* A match has just been scored for the query with a repeated term, at a
\* document id above 1: both of its unique terms are in the group and the
\* calls of this match are the only ranker and sieve calls so far.
C19_Witness ==
    /\ pc = "advance"
    /\ query = <<1, 2, 1>>
    /\ n = 2
    /\ matching_indices = {1, 2}
    /\ Len(calls) = 7
    /\ calls[Len(calls)].call = "sift"
    /\ calls[Len(calls)].document_id > 1

\* The calls of `name' made for document id d.
CallsFor(name, d) == {j \in CallsTo(name) : calls[j].document_id = d}

\* C20: from one iteration of the merge loop to the next min_doc_id strictly
\* increases, so no document id is the candidate of two iterations, and in
\* the whole evaluation no document id is reset, scored or sifted twice.
C20_MergeProgress ==
    /\ [][pc = "advance" /\ pc' = "loop" /\ HasRemainingPostings(postings') =>
            MinDocId(postings') > MinDocId(postings)]_vars
    /\ [](/\ \A d \in AllDocIds :
                /\ Cardinality(CallsFor("reset", d)) <= 1
                /\ Cardinality(CallsFor("sift", d)) <= 1
           /\ Cardinality(CallsTo("evaluate")) = Cardinality(CallsTo("sift"))
           /\ Cardinality(CallsTo("sift")) = Cardinality(SiftedIds))

\* The third iteration of a merge over three terms is about to start: two
\* documents have been sifted, several cursors moved together in one advance,
\* and postings remain.
C20_Witness ==
    /\ pc = "loop"
    /\ M = 3
    /\ HasRemainingPostings(postings)
    /\ MinDocId(postings) >= 3
    /\ SiftCount = 2
    /\ Cardinality(matching_indices) >= 2

\* The posting that follows the pulls made so far on the stream of term i,
\* None when the stream has no more.
Following(i) ==
    IF pulls[i] < Len(TermLists[i]) THEN TermLists[i][pulls[i] + 1] ELSE None

\* C21: over finite strictly increasing streams the merge loop ends, with
\* every cursor exhausted, after as many iterations as there are distinct
\* document ids in the streams; each iteration advances the cursors of its
\* Candidate Group, which is not empty, by one posting each and leaves the
\* others alone; and a stream that has reported exhaustion is never pulled
\* from again, so each stream is pulled once per posting and once more.
C21_MergeTerminates ==
    /\ <>LoopEnded
    /\ [](LoopEnded =>
            /\ \A i \in 1..M : postings[i] = None
            /\ iterations = Cardinality(AllDocIds)
            /\ \A i \in 1..M : pulls[i] = Len(TermLists[i]) + 1)
    /\ [][pc = "advance" /\ pc' = "loop" =>
            /\ Group # {}
            /\ \A i \in 1..M :
                  IF i \in Group
                  THEN /\ pulls'[i] = pulls[i] + 1
                       /\ postings'[i] = Following(i)
                  ELSE /\ pulls'[i] = pulls[i]
                       /\ postings'[i] = postings[i]
                       /\ posting_iterators'[i] = posting_iterators[i]]_vars
    /\ [][\A i \in 1..Len(postings) :
            postings[i] = None => pulls'[i] = pulls[i]]_vars

\* The merge loop over three terms has ended after three iterations; one
\* stream was empty from the start and another held three postings.
C21_Witness ==
    /\ pc = "winners"
    /\ M = 3
    /\ iterations = 3
    /\ \E i \in 1..M : pulls[i] = 1
    /\ \E i \in 1..M : pulls[i] = 4

\* ------------------------------------------------------ claims, suffix array

\* The normalized query is a prefix of what content holds from offset p on.
PrefixAt(content, p, q) ==
    /\ p + Len(q) <= Len(content)
    /\ SubSeq(content, p + 1, p + Len(q)) = q

\* The number of token starts of a document's normalized content at which
\* the normalized query q is a prefix of the rest.
PhraseCount(doc, q) ==
    LET content == Normalize(doc.body)
    IN  Cardinality({p \in TokenStarts(content) : PrefixAt(content, p, q)})

\* The most documents evaluate may yield: hit_count, 5 when it is absent.
HitLimit == Get(suffix_array.options, "hit_count", 5)

\* What evaluate has yielded is within the limit, in non-increasing order of
\* score, and every yielded document is yielded with its own phrase count,
\* which is not zero; an empty normalized query has yielded nothing.
YieldsOwnCounts ==
    LET hits == suffix_array.results
        q == Normalize(suffix_array.query)
    IN  /\ Len(hits) <= HitLimit
        /\ \A j \in 1..(Len(hits) - 1) : hits[j].score >= hits[j + 1].score
        /\ \A j \in 1..Len(hits) :
              /\ hits[j].score = PhraseCount(hits[j].document, q)
              /\ hits[j].score > 0
        /\ q = <<>> => hits = <<>>

\* C22: for a non-empty normalized query SuffixArray.evaluate yields at most
\* hit_count documents (5 when hit_count is absent), in non-increasing order
\* of score, the score of a yielded document being the number of token
\* starts of that same document's normalized content at which the normalized
\* query is a prefix of the rest; a document with no such position is not
\* yielded, and an empty normalized query yields nothing.
C22_PhrasePrefixSearch == suffix_array.pc # "idle" => YieldsOwnCounts

\* The corpus numbers its documents by position, from 0.
PositionalIds ==
    \A k \in 1..Len(suffix_array.corpus) :
        suffix_array.corpus[k].document_id = k - 1

\* Over a corpus that numbers its documents by position from 0, evaluate
\* yields every document with its own phrase count, and on return it has
\* yielded the documents that hold the phrase, or as many as the limit allows,
\* none of them scored below one left out.
PositionalCorpusYieldsOwnCounts ==
    (suffix_array.pc # "idle" /\ PositionalIds) =>
        /\ YieldsOwnCounts
        /\ suffix_array.pc = "done" =>
              LET q == Normalize(suffix_array.query)
                  docs == {suffix_array.corpus[k] : k \in 1..Len(suffix_array.corpus)}
                  holding == {doc \in docs : q # <<>> /\ PhraseCount(doc, q) > 0}
                  yielded == {suffix_array.results[j].document :
                                 j \in 1..Len(suffix_array.results)}
              IN  /\ yielded \subseteq holding
                  /\ Len(suffix_array.results) = Min2(Cardinality(holding), HitLimit)
                  /\ Cardinality(yielded) = Len(suffix_array.results)
                  /\ \A d \in yielded : \A e \in holding \ yielded :
                        PhraseCount(d, q) >= PhraseCount(e, q)

====
